---- MODULE Spec2Model ----
(***************************************************************************)
(* A model of the vSphere driver (driver.go): one Driver session issuing   *)
(* CloneVM, DestroyVM, ConfigureVM, PowerOn, PowerOff, StartShutdown,      *)
(* WaitForShutdown, WaitForIP, CreateSnapshot and ConvertToTemplate calls  *)
(* against a remote inventory whose mutations are asynchronous tasks.      *)
(* The driver is a single flow of control (pc); the remote side completes  *)
(* tasks, shuts guests down and lets time pass on its own.                 *)
(***************************************************************************)
EXTENDS Integers, Sequences, FiniteSets, TLC

VARIABLES
    pc,        \* position of the driver inside the current call ("idle" between calls)
    call,      \* the current (or last) call: operation and arguments
    loc,       \* the local variables of the current call
    ret,       \* what the last call returned
    vms,       \* remote inventory of machines, indexed by object reference
    tasks,     \* remote tasks, indexed by task reference
    now,       \* remote/wall clock, in ticks
    timer,     \* the channel of time.After: deadline and whether it has delivered
    driver,    \* the session NewDriver returned, or NoDriver
    hist       \* what the current call has done so far (observation only)

vars == <<pc, call, loc, ret, vms, tasks, now, timer, driver, hist>>

----------------------------------------------------------------------------
(* Bounds of the model *)

MaxCalls == 2          \* driver calls made over a run
TicksPerSecond == 2    \* resolution of the clock
MaxTimeout == 6        \* largest WaitForShutdown timeout, in ticks
MaxQueryDelay == 3     \* ticks a power-state round trip may take

(* Program constants *)

SleepSeconds == 1

\* a pause of three seconds between two polls
SleepThreeSeconds == 3 * TicksPerSecond

PollInterval == SleepSeconds * TicksPerSecond

----------------------------------------------------------------------------
(* Values *)

PoweredOn == "poweredOn"
PoweredOff == "poweredOff"
Suspended == "suspended"
PowerStates == {PoweredOn, PoweredOff, Suspended}

Nil == "nil"
NoRef == 0

ErrNoSnapshots == "linked_clone=true, but template has no snapshots"
ErrTimeout == "Timeout while waiting for machine to shut down."
ErrNotFound == "not found"
ErrFault == "fault"
ErrInvalidState == "invalid power state"
ErrParse == "invalid URL escape"
ErrLogin == "incorrect user name or password"
ErrCertificate == "certificate signed by unknown authority"
ErrAmbiguous == "default datacenter resolves to multiple instances"
ErrCanceled == "context canceled"
ErrDuplicateName == "duplicate name"

DatacenterName == "dc1"

NoSnapshotInfo == [present |-> FALSE, rootSnapshotList |-> <<>>, currentSnapshot |-> NoRef]

SnapshotInfo(list, cur) == [present |-> TRUE, rootSnapshotList |-> list, currentSnapshot |-> cur]

----------------------------------------------------------------------------
(* Inputs *)

NoCloneConfig ==
    [Template |-> "", VMName |-> "", Folder |-> "", Host |-> "",
     ResourcePool |-> "", Datastore |-> "", LinkedClone |-> FALSE]

Placement(folder, host, pool, datastore) ==
    [Folder |-> folder, Host |-> host, ResourcePool |-> pool, Datastore |-> datastore]

\* destinations: all defaults, all named, and one unresolvable name of each kind
Placements ==
    {Placement("", "", "", ""), Placement("f1", "h1", "p1", "ds1"),
     Placement("nofolder", "", "", ""), Placement("", "", "p1", ""),
     Placement("", "h1", "", ""), Placement("", "", "", "nods")}

CloneConfigs ==
    {[Template |-> t, VMName |-> "vm1", Folder |-> p.Folder, Host |-> p.Host,
      ResourcePool |-> p.ResourcePool, Datastore |-> p.Datastore, LinkedClone |-> l] :
        t \in {"tpl1", "base-no-snap", "missing"}, p \in Placements, l \in BOOLEAN}

NoHardwareConfig ==
    [CPUs |-> 0, RAM |-> 0, CPUReservation |-> 0, CPULimit |-> 0,
     RAMReservation |-> 0, RAMReserveAll |-> FALSE]

HardwareConfigs ==
    {NoHardwareConfig,
     [CPUs |-> 2, RAM |-> 1024, CPUReservation |-> 100, CPULimit |-> 200,
      RAMReservation |-> 512, RAMReserveAll |-> TRUE]}

Timeouts == 0..MaxTimeout

----------------------------------------------------------------------------
(* The remote inventory the finder resolves names against *)

Machine(name, folder, power, snap) ==
    [name |-> name, folder |-> folder, power |-> power, snapshot |-> snap,
     exists |-> TRUE, template |-> FALSE, shutdownRequested |-> FALSE,
     config |-> NoHardwareConfig, snapshotsMade |-> 0]

DefaultFolder == "group-v-default"
DefaultPool == "resgroup-default"

\* finder.VirtualMachine: the machine of that name, if exactly one exists
FindVirtualMachine(inv, name) ==
    LET found == {i \in DOMAIN inv : inv[i].exists /\ inv[i].name = name}
    IN  IF Cardinality(found) = 1 THEN CHOOSE i \in found : TRUE ELSE NoRef

\* finder.FolderOrDefault: the folder at the path; the default folder for no path
FindFolderOrDefault(path) ==
    IF path = "" THEN DefaultFolder
    ELSE IF path = "/" \o DatacenterName \o "/vm/" THEN DefaultFolder
    ELSE IF path = "/" \o DatacenterName \o "/vm/f1" THEN "group-v-f1"
    ELSE Nil

\* finder.ResourcePoolOrDefault: the pool at the path; the default pool for no path
FindResourcePoolOrDefault(path) ==
    IF path = "" THEN DefaultPool
    ELSE IF path = "/" \o DatacenterName \o "/host/h1/Resources/p1" THEN "resgroup-p1"
    ELSE Nil

\* finder.Datastore: the datastore of that name
FindDatastore(name) ==
    IF name = "ds1" THEN "datastore-ds1" ELSE Nil

----------------------------------------------------------------------------
(* Local state of a call *)

ZeroRelocateSpec == [Pool |-> Nil, Datastore |-> Nil, DiskMoveType |-> ""]

ZeroCloneSpec == [Location |-> ZeroRelocateSpec, PowerOn |-> FALSE, Snapshot |-> NoRef]

NoLoc ==
    [template |-> NoRef, folder |-> Nil, relocateSpec |-> ZeroRelocateSpec,
     cloneSpec |-> ZeroCloneSpec, task |-> NoRef, powerState |-> Nil,
     err |-> Nil, queryAt |-> 0, wake |-> 0]

\* ConnectConfig; the zero value stands for "no connect config in this call"
NoConnectConfig ==
    [VCenterServer |-> "", Username |-> "", Password |-> "",
     InsecureConnection |-> FALSE, Datacenter |-> ""]

\* the connect configs a caller passes: a well-formed or a malformed server
\* name, the right or a wrong password, certificate checking on or off, and
\* no datacenter name, the name of an existing one, the name of a missing one
ConnectConfigs ==
    [VCenterServer : {"vc1", "vc%zz"}, Username : {"packer"},
     Password : {"secret", "wrong"}, InsecureConnection : BOOLEAN,
     Datacenter : {"", DatacenterName, "nodc"}]

\* the nil *Driver
NoDriver == [client |-> Nil, datacenter |-> Nil, finderDatacenter |-> Nil, ctx |-> Nil]

NoCall ==
    [op |-> "none", vm |-> NoRef, config |-> NoCloneConfig,
     hw |-> NoHardwareConfig, timeout |-> 0, seq |-> 0, connect |-> NoConnectConfig]

NoRet == [err |-> Nil, vm |-> NoRef, ip |-> ""]

NoHist ==
    [requests |-> 0, submitted |-> 0, awaited |-> 0, lookups |-> {}, polls |-> 0, sleeps |-> 0,
     raised |-> Nil, fetched |-> NoSnapshotInfo, deadline |-> 0, start |-> 0,
     offAt |-> -1, queryFailed |-> FALSE, lastSeen |-> Nil, slowest |-> 0,
     poolPath |-> "", cancelled |-> FALSE, connected |-> FALSE, datacenters |-> {},
     steps |-> << >>, offPc |-> "none"]

NoTimer == [armed |-> FALSE, deadline |-> 0, fired |-> FALSE]

Init ==
    /\ pc = "start"
    /\ driver = NoDriver
    /\ call = NoCall
    /\ loc = NoLoc
    /\ ret = NoRet
    /\ \E p \in PowerStates, cur \in {1, 2} :
          vms = << Machine("tpl1", DefaultFolder, p, SnapshotInfo(<<1, 2>>, cur)),
                   Machine("base-no-snap", DefaultFolder, PoweredOff, NoSnapshotInfo) >>
    /\ tasks = << >>
    /\ now = 0
    /\ timer = NoTimer
    /\ hist = NoHist

\* a call begins: fresh locals, fresh observation record
Begin(op, v, c, hw, t, first) ==
    /\ pc = "idle"
    /\ call.seq < MaxCalls
    /\ pc' = first
    /\ call' = [op |-> op, vm |-> v, config |-> c, hw |-> hw, timeout |-> t,
                seq |-> call.seq + 1, connect |-> NoConnectConfig]
    /\ loc' = NoLoc
    /\ hist' = [NoHist EXCEPT !.start = now, !.deadline = now + t,
                               !.offAt = IF v \in DOMAIN vms /\ vms[v].power = PoweredOff
                                         THEN now ELSE -1]
    /\ UNCHANGED <<ret, vms, tasks, now>>

\* the call returns (err, vm) to its caller
Return(e, v) ==
    /\ pc' = "returned"
    /\ ret' = [err |-> e, vm |-> v, ip |-> ""]

\* the caller has taken the result; the driver keeps nothing of the call
Resume ==
    /\ pc = "returned"
    /\ pc' = IF driver = NoDriver THEN "start" ELSE "idle"
    /\ call' = [NoCall EXCEPT !.seq = call.seq]
    /\ loc' = NoLoc
    /\ ret' = NoRet
    /\ hist' = NoHist
    /\ tasks' = SelectSeq(tasks, LAMBDA t : t.state = "running")
    /\ now' = 0
    /\ timer' = NoTimer
    /\ UNCHANGED vms
    /\ UNCHANGED driver

----------------------------------------------------------------------------
(* NewDriver *)

\* the datacenters the remote inventory may hold when the session is opened
Inventories == {{DatacenterName}, {DatacenterName, "dc2"}}

\* url.Parse(fmt.Sprintf("https://%v/sdk", server)): Nil for a server name
\* that does not parse
ParseURL(server) ==
    IF server = "vc%zz" THEN Nil ELSE "https://" \o server \o "/sdk"

\* govmomi.NewClient: the error of the login, Nil if the session is open; the
\* certificate is checked unless the connection is insecure
NewClient(password, insecure, certTrusted) ==
    IF ~insecure /\ ~certTrusted THEN ErrCertificate
    ELSE IF password # "secret" THEN ErrLogin
    ELSE Nil

\* finder.DatacenterOrDefault: the named datacenter, or the only one when no
\* name is given
DatacenterOrDefault(dcs, name) ==
    IF name = ""
    THEN IF Cardinality(dcs) = 1
         THEN [dc |-> CHOOSE x \in dcs : TRUE, err |-> Nil]
         ELSE [dc |-> Nil, err |-> ErrAmbiguous]
    ELSE IF name \in dcs THEN [dc |-> name, err |-> Nil]
    ELSE [dc |-> Nil, err |-> ErrNotFound]

\* a session whose finder was never given its datacenter
SessionWithUnscopedFinder(client, datacenter) ==
    [client |-> client, datacenter |-> datacenter, finderDatacenter |-> Nil,
     ctx |-> "TODO"]

\* finder.SetDatacenter(datacenter) and the Driver literal
NewSession(client, datacenter) ==
    [client |-> client, datacenter |-> datacenter, finderDatacenter |-> datacenter,
     ctx |-> "TODO"]

CallNewDriver(cc) ==
    /\ pc = "start"
    /\ driver = NoDriver
    /\ pc' = "new_parse"
    /\ call' = [NoCall EXCEPT !.op = "NewDriver", !.connect = cc, !.seq = call.seq]
    /\ loc' = NoLoc
    /\ hist' = NoHist
    /\ UNCHANGED <<ret, vms, tasks, now, timer, driver>>

\* url.Parse and `return nil, err`
NewDriverParse ==
    /\ pc = "new_parse"
    /\ IF ParseURL(call.connect.VCenterServer) = Nil
       THEN /\ Return(ErrParse, NoRef)
            /\ hist' = [hist EXCEPT !.raised = ErrParse]
       ELSE /\ pc' = "new_connect"
            /\ UNCHANGED <<ret, hist>>
    /\ UNCHANGED <<call, loc, vms, tasks, now, timer, driver>>

\* govmomi.NewClient and `return nil, err`
NewDriverConnect ==
    /\ pc = "new_connect"
    /\ \E certTrusted \in BOOLEAN, reachable \in BOOLEAN :
          LET err == IF reachable
                     THEN NewClient(call.connect.Password,
                                    call.connect.InsecureConnection, certTrusted)
                     ELSE ErrFault
          IN
          IF err # Nil
          THEN /\ Return(err, NoRef)
               /\ hist' = [hist EXCEPT !.raised = err]
          ELSE /\ pc' = "new_datacenter"
               /\ hist' = [hist EXCEPT !.connected = TRUE]
               /\ UNCHANGED ret
    /\ UNCHANGED <<call, loc, vms, tasks, now, timer, driver>>

\* finder.DatacenterOrDefault, `return nil, err`, else the session
NewDriverDatacenter ==
    /\ pc = "new_datacenter"
    /\ \E dcs \in Inventories :
          LET r == DatacenterOrDefault(dcs, call.connect.Datacenter) IN
          IF r.err # Nil
          THEN /\ Return(r.err, NoRef)
               /\ hist' = [hist EXCEPT !.raised = r.err, !.datacenters = dcs]
               /\ UNCHANGED driver
          ELSE /\ Return(Nil, NoRef)
               /\ hist' = [hist EXCEPT !.datacenters = dcs]
               /\ driver' = NewSession("client", r.dc)
    /\ UNCHANGED <<call, loc, vms, tasks, now, timer>>

----------------------------------------------------------------------------
(* Remote tasks: submission, completion, and the driver's wait *)

NewTask(kind, v, req) ==
    [kind |-> kind, vm |-> v, req |-> req, state |-> "running", err |-> Nil,
     result |-> NoRef]

\* the errors with which the remote side may refuse a request on machine v
RefusalsFor(v) ==
    IF v \in DOMAIN vms /\ vms[v].exists THEN {ErrFault} ELSE {ErrNotFound}

\* a mutating remote call: either a task is created and the driver goes on to
\* wait for it, or the call fails and the error is returned as it is
Submit(kind, v, req, waitpc) ==
    \/ /\ tasks' = Append(tasks, NewTask(kind, v, req))
       /\ loc' = [loc EXCEPT !.task = Len(tasks) + 1]
       /\ hist' = [hist EXCEPT !.requests = @ + 1, !.submitted = @ + 1,
                               !.steps = Append(@, "submit")]
       /\ pc' = waitpc
       /\ UNCHANGED <<call, ret, vms, now, timer>>
    \/ \E e \in RefusalsFor(v) :
          /\ Return(e, NoRef)
          /\ hist' = [hist EXCEPT !.requests = @ + 1, !.raised = e,
                                  !.steps = Append(@, "submit")]
          /\ UNCHANGED <<call, loc, vms, tasks, now, timer>>

\* d.ctx is context.TODO(): it has no cancel function and no deadline, and it
\* is kept in an unexported field, so its Done channel is never closed
CtxDone == FALSE

\* the places where the driver is blocked in a call that takes d.ctx
BlockedPcs ==
    {"clone_wait", "destroy_wait", "configure_wait", "poweron_wait", "snapshot_wait",
     "poweroff_wait", "wait_ip"}

\* the caller gives the operation up while the driver is blocked in a wait; the
\* session context is not derived from anything the caller holds
CallerCancel ==
    /\ pc \in BlockedPcs
    /\ ~hist.cancelled
    /\ pc # "wait_ip" => (loc.task \in DOMAIN tasks /\ tasks[loc.task].state = "running")
    /\ hist' = [hist EXCEPT !.cancelled = TRUE]
    /\ UNCHANGED <<pc, call, loc, ret, vms, tasks, now, timer>>
    /\ UNCHANGED driver

\* a wait that does not block until the task is over
ReturnWithoutAwait ==
    /\ loc.task \in DOMAIN tasks
    /\ Return(Nil, NoRef)
    /\ UNCHANGED <<call, loc, vms, tasks, now, timer, hist>>

\* a wait whose error is dropped
AwaitAndSwallow ==
    /\ loc.task \in DOMAIN tasks
    /\ tasks[loc.task].state # "running"
    /\ Return(Nil, NoRef)
    /\ hist' = [hist EXCEPT !.awaited = @ + 1, !.raised = tasks[loc.task].err]
    /\ UNCHANGED <<call, loc, vms, tasks, now, timer>>

\* task.WaitForResult followed by `return err`
AwaitAndReturn ==
    /\ loc.task \in DOMAIN tasks
    /\ \/ /\ tasks[loc.task].state # "running"
          /\ Return(tasks[loc.task].err, NoRef)
          /\ hist' = [hist EXCEPT !.awaited = @ + 1, !.raised = tasks[loc.task].err]
       \/ /\ CtxDone
          /\ Return(ErrCanceled, NoRef)
          /\ hist' = [hist EXCEPT !.raised = ErrCanceled]
    /\ UNCHANGED <<call, loc, vms, tasks, now, timer>>

----------------------------------------------------------------------------
(* CloneVM *)

CallCloneVM(c) ==
    /\ UNCHANGED timer
    /\ Begin("CloneVM", NoRef, c, NoHardwareConfig, 0, "clone_template")
    /\ UNCHANGED driver

\* d.finder.VirtualMachine(d.ctx, config.Template)
CloneResolveTemplate ==
    /\ pc = "clone_template"
    /\ LET template == FindVirtualMachine(vms, call.config.Template) IN
       IF template = NoRef
       THEN /\ Return(ErrNotFound, NoRef)
            /\ hist' = [hist EXCEPT !.steps = Append(@, "template"), !.lookups = @ \cup {"template"}, !.raised = ErrNotFound]
            /\ UNCHANGED loc
       ELSE /\ pc' = "clone_folder"
            /\ loc' = [loc EXCEPT !.template = template]
            /\ hist' = [hist EXCEPT !.steps = Append(@, "template"), !.lookups = @ \cup {"template"}]
            /\ UNCHANGED ret
    /\ UNCHANGED <<call, vms, tasks, now, timer>>
    /\ UNCHANGED driver

FolderPath(dc, folder) == "/" \o dc \o "/vm/" \o folder

\* a folder lookup whose error is not looked at
CloneResolveFolderIgnoringError ==
    /\ pc = "clone_folder"
    /\ LET folder == FindFolderOrDefault(FolderPath(driver.datacenter, call.config.Folder)) IN
       /\ pc' = "clone_pool"
       /\ loc' = [loc EXCEPT !.folder = folder]
       /\ hist' = [hist EXCEPT !.steps = Append(@, "folder"), !.lookups = @ \cup {"folder"},
                               !.raised = IF folder = Nil THEN ErrNotFound ELSE Nil]
       /\ UNCHANGED ret
    /\ UNCHANGED <<call, vms, tasks, now, timer>>
    /\ UNCHANGED driver

\* d.finder.FolderOrDefault(d.ctx, "/<dc>/vm/<folder>")
CloneResolveFolder ==
    /\ pc = "clone_folder"
    /\ LET folder == FindFolderOrDefault(FolderPath(driver.datacenter, call.config.Folder)) IN
       IF folder = Nil
       THEN /\ Return(ErrNotFound, NoRef)
            /\ hist' = [hist EXCEPT !.steps = Append(@, "folder"), !.lookups = @ \cup {"folder"}, !.raised = ErrNotFound]
            /\ UNCHANGED loc
       ELSE /\ pc' = "clone_pool"
            /\ loc' = [loc EXCEPT !.folder = folder]
            /\ hist' = [hist EXCEPT !.steps = Append(@, "folder"), !.lookups = @ \cup {"folder"}]
            /\ UNCHANGED ret
    /\ UNCHANGED <<call, vms, tasks, now, timer>>
    /\ UNCHANGED driver

\* the pool path chosen by the host name instead of the pool name
PoolPathByHost(dc, host, pool) ==
    IF host # "" THEN "/" \o dc \o "/host/" \o host \o "/Resources/" \o pool ELSE ""

\* the path handed to finder.ResourcePoolOrDefault
PoolPath(dc, host, pool) ==
    IF pool # "" THEN "/" \o dc \o "/host/" \o host \o "/Resources/" \o pool ELSE ""

\* d.finder.ResourcePoolOrDefault, then relocateSpec.Pool = &poolRef
CloneResolvePool ==
    /\ pc = "clone_pool"
    /\ LET path == PoolPath(driver.datacenter, call.config.Host, call.config.ResourcePool)
           pool == FindResourcePoolOrDefault(path)
       IN
       IF pool = Nil
       THEN /\ Return(ErrNotFound, NoRef)
            /\ hist' = [hist EXCEPT !.steps = Append(@, "pool"), !.lookups = @ \cup {"pool"}, !.raised = ErrNotFound,
                                    !.poolPath = path]
            /\ UNCHANGED loc
       ELSE /\ pc' = "clone_datastore"
            /\ loc' = [loc EXCEPT !.relocateSpec.Pool = pool]
            /\ hist' = [hist EXCEPT !.steps = Append(@, "pool"), !.lookups = @ \cup {"pool"}, !.poolPath = path]
            /\ UNCHANGED ret
    /\ UNCHANGED <<call, vms, tasks, now, timer>>
    /\ UNCHANGED driver

\* the datastore looked up even when none is named
AlwaysWantsDatastore(config) == TRUE

\* whether CloneVM resolves a datastore at all
WantsDatastore(config) == config.Datastore # ""

\* a clone specification that powers the clone on
PoweredOnCloneSpec(relocateSpec) ==
    [Location |-> relocateSpec, PowerOn |-> TRUE, Snapshot |-> NoRef]

\* the clone specification before the linked-clone branch
BaseCloneSpec(relocateSpec) ==
    [Location |-> relocateSpec, PowerOn |-> FALSE, Snapshot |-> NoRef]

\* the disk-move policy of the clone specification
DiskMoveTypeFor(config, spec) ==
    IF config.LinkedClone = TRUE
    THEN [spec EXCEPT !.Location.DiskMoveType = "createNewChildDiskBacking"]
    ELSE spec

\* the datastore lookup (only if named), then the clone specification is built
CloneResolveDatastore ==
    /\ pc = "clone_datastore"
    /\ IF WantsDatastore(call.config)
       THEN LET datastore == FindDatastore(call.config.Datastore) IN
            IF datastore = Nil
            THEN /\ Return(ErrNotFound, NoRef)
                 /\ hist' = [hist EXCEPT !.steps = Append(@, "datastore"), !.lookups = @ \cup {"datastore"},
                                         !.raised = ErrNotFound]
                 /\ UNCHANGED loc
            ELSE LET rs == [loc.relocateSpec EXCEPT !.Datastore = datastore] IN
                 /\ pc' = IF call.config.LinkedClone = TRUE
                          THEN "clone_snapshot" ELSE "clone_submit"
                 /\ loc' = [loc EXCEPT !.relocateSpec = rs,
                               !.cloneSpec = DiskMoveTypeFor(call.config, BaseCloneSpec(rs))]
                 /\ hist' = [hist EXCEPT !.steps = Append(@, "datastore"), !.lookups = @ \cup {"datastore"}]
                 /\ UNCHANGED ret
       ELSE /\ pc' = IF call.config.LinkedClone = TRUE
                     THEN "clone_snapshot" ELSE "clone_submit"
            /\ loc' = [loc EXCEPT
                          !.cloneSpec = DiskMoveTypeFor(call.config,
                                                        BaseCloneSpec(loc.relocateSpec))]
            /\ UNCHANGED <<ret, hist>>
    /\ UNCHANGED <<call, vms, tasks, now, timer>>
    /\ UNCHANGED driver

\* the snapshot precondition left out
SnapshotNeverMissing(tpl) == FALSE

\* tpl.Snapshot == nil
TemplateHasNoSnapshot(tpl) == ~tpl.present

\* the newest snapshot of the tree taken instead of the current one
NewestSnapshot(tpl) == tpl.rootSnapshotList[Len(tpl.rootSnapshotList)]

\* cloneSpec.Snapshot = tpl.Snapshot.CurrentSnapshot
LinkedCloneBase(tpl) == tpl.currentSnapshot

\* template.Properties(..., {"snapshot"}, &tpl) and the snapshot precondition
CloneFetchSnapshot ==
    /\ pc = "clone_snapshot"
    /\ \/ \E e \in RefusalsFor(loc.template) :
             /\ Return(e, NoRef)
             /\ hist' = [hist EXCEPT !.raised = e, !.steps = Append(@, "snapshot")]
             /\ UNCHANGED loc
       \/ /\ vms[loc.template].exists
          /\ LET tpl == vms[loc.template].snapshot IN
             IF TemplateHasNoSnapshot(tpl)
             THEN /\ Return(ErrNoSnapshots, NoRef)
                  /\ hist' = [hist EXCEPT !.fetched = tpl, !.lookups = @ \cup {"snapshot"},
                                          !.raised = ErrNoSnapshots,
                                          !.steps = Append(@, "snapshot")]
                  /\ UNCHANGED loc
             ELSE /\ pc' = "clone_submit"
                  /\ loc' = [loc EXCEPT !.cloneSpec.Snapshot = LinkedCloneBase(tpl)]
                  /\ hist' = [hist EXCEPT !.fetched = tpl, !.lookups = @ \cup {"snapshot"},
                                          !.steps = Append(@, "snapshot")]
                  /\ UNCHANGED ret
    /\ UNCHANGED <<call, vms, tasks, now, timer>>
    /\ UNCHANGED driver

\* template.Clone(d.ctx, folder, config.VMName, cloneSpec)
CloneSubmit ==
    /\ pc = "clone_submit"
    /\ Submit("clone", loc.template,
              [folder |-> loc.folder, name |-> call.config.VMName, spec |-> loc.cloneSpec],
              "clone_wait")
    /\ UNCHANGED driver

\* a wait that, when the clone failed, asks for the half-made machine to be
\* destroyed before it returns the error
CloneWaitWithCleanup ==
    /\ pc = "clone_wait"
    /\ tasks[loc.task].state # "running"
    /\ IF tasks[loc.task].err # Nil
       THEN /\ Return(tasks[loc.task].err, NoRef)
            /\ hist' = [hist EXCEPT !.awaited = @ + 1, !.raised = tasks[loc.task].err,
                                    !.requests = @ + 1, !.submitted = @ + 1]
            /\ tasks' = Append(tasks, NewTask("destroy", loc.template, <<>>))
       ELSE /\ Return(Nil, tasks[loc.task].result)
            /\ hist' = [hist EXCEPT !.awaited = @ + 1]
            /\ UNCHANGED tasks
    /\ UNCHANGED <<call, loc, vms, now, timer>>
    /\ UNCHANGED driver

\* task.WaitForResult, then the handle of the task's result
CloneWait ==
    /\ pc = "clone_wait"
    /\ \/ /\ tasks[loc.task].state # "running"
          /\ IF tasks[loc.task].err # Nil
             THEN /\ Return(tasks[loc.task].err, NoRef)
                  /\ hist' = [hist EXCEPT !.awaited = @ + 1, !.raised = tasks[loc.task].err,
                                          !.steps = Append(@, "await")]
             ELSE /\ Return(Nil, tasks[loc.task].result)
                  /\ hist' = [hist EXCEPT !.awaited = @ + 1, !.steps = Append(@, "await")]
       \/ /\ CtxDone
          /\ Return(ErrCanceled, NoRef)
          /\ hist' = [hist EXCEPT !.raised = ErrCanceled]
    /\ UNCHANGED <<call, loc, vms, tasks, now, timer>>
    /\ UNCHANGED driver

----------------------------------------------------------------------------
(* DestroyVM, ConfigureVM, PowerOn, CreateSnapshot: one task each *)

Handles == DOMAIN vms

NoReq == [none |-> TRUE]

CallDestroyVM(v) ==
    /\ UNCHANGED timer
    /\ Begin("DestroyVM", v, NoCloneConfig, NoHardwareConfig, 0, "destroy_submit")
    /\ UNCHANGED driver

\* vm.Destroy(d.ctx)
DestroySubmit ==
    /\ pc = "destroy_submit"
    /\ Submit("destroy", call.vm, NoReq, "destroy_wait")
    /\ UNCHANGED driver

DestroyWait ==
    /\ pc = "destroy_wait"
    /\ AwaitAndReturn
    /\ UNCHANGED driver

\* the reconfiguration request built from the hardware parameters
ConfSpec(config) ==
    [NumCPUs |-> config.CPUs, MemoryMB |-> config.RAM,
     CpuAllocation |-> [Reservation |-> config.CPUReservation, Limit |-> config.CPULimit],
     MemoryAllocation |-> [Reservation |-> config.RAMReservation],
     MemoryReservationLockedToMax |-> config.RAMReserveAll]

CallConfigureVM(v, hw) ==
    /\ UNCHANGED timer
    /\ Begin("ConfigureVM", v, NoCloneConfig, hw, 0, "configure_submit")
    /\ UNCHANGED driver

\* vm.Reconfigure(d.ctx, confSpec)
ConfigureSubmit ==
    /\ pc = "configure_submit"
    /\ Submit("reconfigure", call.vm, ConfSpec(call.hw), "configure_wait")
    /\ UNCHANGED driver

ConfigureWait ==
    /\ pc = "configure_wait"
    /\ AwaitAndReturn
    /\ UNCHANGED driver

CallPowerOn(v) ==
    /\ UNCHANGED timer
    /\ Begin("PowerOn", v, NoCloneConfig, NoHardwareConfig, 0, "poweron_submit")
    /\ UNCHANGED driver

\* vm.PowerOn(d.ctx)
PowerOnSubmit ==
    /\ pc = "poweron_submit"
    /\ Submit("powerOn", call.vm, NoReq, "poweron_wait")
    /\ UNCHANGED driver

PowerOnWait ==
    /\ pc = "poweron_wait"
    /\ AwaitAndReturn
    /\ UNCHANGED driver

CallCreateSnapshot(v) ==
    /\ UNCHANGED timer
    /\ Begin("CreateSnapshot", v, NoCloneConfig, NoHardwareConfig, 0, "snapshot_submit")
    /\ UNCHANGED driver

\* a CreateSnapshot that reports success without asking for a snapshot
SnapshotSkipped ==
    /\ pc = "snapshot_submit"
    /\ Return(Nil, NoRef)
    /\ UNCHANGED <<call, loc, vms, tasks, now, timer, hist>>
    /\ UNCHANGED driver

\* vm.CreateSnapshot(d.ctx, "Created by Packer", "", false, false)
SnapshotSubmit ==
    /\ pc = "snapshot_submit"
    /\ Submit("createSnapshot", call.vm,
              [name |-> "Created by Packer", description |-> "", memory |-> FALSE,
               quiesce |-> FALSE],
              "snapshot_wait")
    /\ UNCHANGED driver

SnapshotWait ==
    /\ pc = "snapshot_wait"
    /\ AwaitAndReturn
    /\ UNCHANGED driver

----------------------------------------------------------------------------
(* PowerOff *)

\* vm.PowerState: the state of the machine, or the error of the query
PowerStateReplies(v) ==
    IF v \in DOMAIN vms /\ vms[v].exists
    THEN {[state |-> vms[v].power, err |-> Nil], [state |-> Nil, err |-> ErrFault]}
    ELSE {[state |-> Nil, err |-> ErrNotFound]}

CallPowerOff(v) ==
    /\ UNCHANGED timer
    /\ Begin("PowerOff", v, NoCloneConfig, NoHardwareConfig, 0, "poweroff_query")
    /\ UNCHANGED driver

\* the power state compared with the wrong constant
AlreadyPoweredOn(state) == state = PoweredOn

\* state == types.VirtualMachinePowerStatePoweredOff
AlreadyPoweredOff(state) == state = PoweredOff

\* vm.PowerState(d.ctx) and the early return when already off
PowerOffQuery ==
    /\ pc = "poweroff_query"
    /\ \E r \in PowerStateReplies(call.vm) :
          /\ hist' = [hist EXCEPT !.polls = @ + 1, !.lastSeen = r.state,
                                  !.raised = r.err,
                                  !.queryFailed = (r.err # Nil)]
          /\ IF r.err # Nil
             THEN Return(r.err, NoRef) /\ UNCHANGED loc
             ELSE IF AlreadyPoweredOff(r.state)
             THEN Return(Nil, NoRef) /\ UNCHANGED loc
             ELSE /\ pc' = "poweroff_submit"
                  /\ loc' = [loc EXCEPT !.powerState = r.state]
                  /\ UNCHANGED ret
    /\ UNCHANGED <<call, vms, tasks, now, timer>>
    /\ UNCHANGED driver

\* vm.PowerOff(d.ctx)
PowerOffSubmit ==
    /\ pc = "poweroff_submit"
    /\ Submit("powerOff", call.vm, NoReq, "poweroff_wait")
    /\ UNCHANGED driver

PowerOffWait ==
    /\ pc = "poweroff_wait"
    /\ AwaitAndReturn
    /\ UNCHANGED driver

----------------------------------------------------------------------------
(* StartShutdown, ConvertToTemplate, WaitForIP: direct remote calls, no task *)

\* vm.ShutdownGuest(d.ctx): delivered only to a running guest
CallStartShutdown(v) ==
    /\ UNCHANGED timer
    /\ Begin("StartShutdown", v, NoCloneConfig, NoHardwareConfig, 0, "shutdown_guest")
    /\ UNCHANGED driver

\* the shutdown carried out as a hard power-off task that is then awaited
ShutdownGuestByTask ==
    /\ pc = "shutdown_guest"
    /\ Submit("powerOff", call.vm, NoReq, "poweroff_wait")
    /\ UNCHANGED driver

\* vm.ShutdownGuest(d.ctx) followed by `return err`: the guest is asked to shut
\* down, nothing is waited for
ShutdownGuest ==
    /\ pc = "shutdown_guest"
    /\ \/ /\ call.vm \in DOMAIN vms /\ vms[call.vm].exists
          /\ vms[call.vm].power = PoweredOn
          /\ vms' = [vms EXCEPT ![call.vm].shutdownRequested = TRUE]
          /\ Return(Nil, NoRef)
          /\ UNCHANGED hist
       \/ \E e \in (IF call.vm \in DOMAIN vms /\ vms[call.vm].exists
                       /\ vms[call.vm].power # PoweredOn
                    THEN {ErrInvalidState} ELSE RefusalsFor(call.vm)) :
             /\ Return(e, NoRef)
             /\ hist' = [hist EXCEPT !.raised = e]
             /\ UNCHANGED vms
    /\ UNCHANGED <<call, loc, tasks, now, timer>>
    /\ UNCHANGED driver

CallConvertToTemplate(v) ==
    /\ UNCHANGED timer
    /\ Begin("ConvertToTemplate", v, NoCloneConfig, NoHardwareConfig, 0, "mark_template")
    /\ UNCHANGED driver

\* vm.MarkAsTemplate(d.ctx): only a powered-off machine can be marked
MarkAsTemplate ==
    /\ pc = "mark_template"
    /\ \/ /\ call.vm \in DOMAIN vms /\ vms[call.vm].exists
          /\ vms[call.vm].power = PoweredOff
          /\ vms' = [vms EXCEPT ![call.vm].template = TRUE]
          /\ Return(Nil, NoRef)
          /\ UNCHANGED hist
       \/ \E e \in (IF call.vm \in DOMAIN vms /\ vms[call.vm].exists
                       /\ vms[call.vm].power # PoweredOff
                    THEN {ErrInvalidState} ELSE RefusalsFor(call.vm)) :
             /\ Return(e, NoRef)
             /\ hist' = [hist EXCEPT !.raised = e]
             /\ UNCHANGED vms
    /\ UNCHANGED <<call, loc, tasks, now, timer>>
    /\ UNCHANGED driver

CallWaitForIP(v) ==
    /\ UNCHANGED timer
    /\ Begin("WaitForIP", v, NoCloneConfig, NoHardwareConfig, 0, "wait_ip")
    /\ UNCHANGED driver

\* vm.WaitForIP(d.ctx): the address once the running guest reports one, or the error
WaitForIPReturn ==
    /\ pc = "wait_ip"
    /\ \/ /\ call.vm \in DOMAIN vms /\ vms[call.vm].exists
          /\ vms[call.vm].power = PoweredOn
          /\ pc' = "returned"
          /\ ret' = [err |-> Nil, vm |-> NoRef, ip |-> "10.0.0.1"]
          /\ UNCHANGED hist
       \/ \E e \in RefusalsFor(call.vm) :
             /\ pc' = "returned"
             /\ ret' = [err |-> e, vm |-> NoRef, ip |-> ""]
             /\ hist' = [hist EXCEPT !.raised = e]
       \/ /\ CtxDone
          /\ pc' = "returned"
          /\ ret' = [err |-> ErrCanceled, vm |-> NoRef, ip |-> ""]
          /\ hist' = [hist EXCEPT !.raised = ErrCanceled]
    /\ UNCHANGED <<call, loc, vms, tasks, now, timer>>
    /\ UNCHANGED driver

----------------------------------------------------------------------------
(* WaitForShutdown *)

\* a timer that is due at once, whatever the timeout
TimeAfterNothing(t, timeout) == [armed |-> TRUE, deadline |-> t, fired |-> FALSE]

\* shutdownTimer := time.After(timeout): a channel that delivers once, at the deadline
TimeAfter(t, timeout) == [armed |-> TRUE, deadline |-> t + timeout, fired |-> FALSE]

CallWaitForShutdown(v, timeout) ==
    /\ timer' = TimeAfter(now, timeout)
    /\ Begin("WaitForShutdown", v, NoCloneConfig, NoHardwareConfig, timeout, "wfs_query")
    /\ UNCHANGED driver

\* vm.PowerState(d.ctx) is sent: the remote side reads the state
WfsQuery ==
    /\ pc = "wfs_query"
    /\ \E r \in PowerStateReplies(call.vm) :
          /\ loc' = [loc EXCEPT !.powerState = r.state, !.err = r.err, !.queryAt = now]
          /\ hist' = [hist EXCEPT !.polls = @ + 1, !.lastSeen = r.state,
                                  !.queryFailed = @ \/ (r.err # Nil)]
    /\ pc' = "wfs_reply"
    /\ UNCHANGED <<call, ret, vms, tasks, now, timer>>
    /\ UNCHANGED driver

\* the query error not looked at
QueryErrorIgnored(err) == FALSE

\* err != nil after vm.PowerState
QueryFailed(err) == err # Nil

\* the power state compared with a misspelt constant
ShutdownConfirmedMisspelt(powerState) == powerState = "PoweredOff"

\* powerState == "poweredOff"
ShutdownConfirmed(powerState) == powerState = PoweredOff

\* case <-shutdownTimer: the channel has delivered
TimedOut(t) == t.fired

\* a loop that looks at the timer before it looks at the power state
WfsReplyDeadlineFirst ==
    /\ pc = "wfs_reply"
    /\ LET roundTrip == now - loc.queryAt
           seen == [hist EXCEPT !.slowest = IF roundTrip > @ THEN roundTrip ELSE @]
       IN
       IF QueryFailed(loc.err)
       THEN /\ Return(loc.err, NoRef)
            /\ hist' = [seen EXCEPT !.raised = loc.err]
            /\ UNCHANGED <<loc, timer>>
       ELSE IF TimedOut(timer)
       THEN /\ Return(ErrTimeout, NoRef)
            /\ hist' = seen
            /\ UNCHANGED <<loc, timer>>
       ELSE IF ShutdownConfirmed(loc.powerState)
       THEN /\ Return(Nil, NoRef)
            /\ hist' = seen
            /\ UNCHANGED <<loc, timer>>
       ELSE /\ pc' = "wfs_sleep"
            /\ loc' = [loc EXCEPT !.wake = now + PollInterval]
            /\ hist' = [seen EXCEPT !.sleeps = @ + 1]
            /\ UNCHANGED <<ret, timer>>
    /\ UNCHANGED <<call, vms, tasks, now>>
    /\ UNCHANGED driver

\* the reply arrives: error, shutdown confirmed, timed out, or sleep and poll again
WfsReply ==
    /\ pc = "wfs_reply"
    /\ LET roundTrip == now - loc.queryAt
           seen == [hist EXCEPT !.slowest = IF roundTrip > @ THEN roundTrip ELSE @]
       IN
       IF QueryFailed(loc.err)
       THEN /\ Return(loc.err, NoRef)
            /\ hist' = [seen EXCEPT !.raised = loc.err]
            /\ UNCHANGED <<loc, timer>>
       ELSE IF ShutdownConfirmed(loc.powerState)
       THEN /\ Return(Nil, NoRef)
            /\ hist' = seen
            /\ UNCHANGED <<loc, timer>>
       ELSE IF TimedOut(timer)
       THEN /\ Return(ErrTimeout, NoRef)
            /\ hist' = seen
            /\ UNCHANGED <<loc, timer>>
       ELSE /\ pc' = "wfs_sleep"
            /\ loc' = [loc EXCEPT !.wake = now + PollInterval]
            /\ hist' = [seen EXCEPT !.sleeps = @ + 1]
            /\ UNCHANGED <<ret, timer>>
    /\ UNCHANGED <<call, vms, tasks, now>>
    /\ UNCHANGED driver

\* time.Sleep(1 * time.Second) is over
WfsWake ==
    /\ pc = "wfs_sleep"
    /\ now >= loc.wake
    /\ pc' = "wfs_query"
    /\ UNCHANGED <<call, loc, ret, vms, tasks, now, timer, hist>>
    /\ UNCHANGED driver

----------------------------------------------------------------------------
(* The remote side and the clock *)

\* the runtime delivers on the timer channel once the deadline is reached
TimerFire ==
    /\ timer.armed /\ ~timer.fired
    /\ now >= timer.deadline
    /\ timer' = [timer EXCEPT !.fired = TRUE]
    /\ UNCHANGED <<pc, call, loc, ret, vms, tasks, now, hist>>
    /\ UNCHANGED driver

\* time passes while a query is under way or the driver sleeps; a due timer
\* delivers before the clock moves on
Tick ==
    /\ \/ pc = "wfs_reply" /\ now - loc.queryAt < MaxQueryDelay
       \/ pc = "wfs_sleep" /\ now < loc.wake
    /\ ~(timer.armed /\ ~timer.fired /\ now >= timer.deadline)
    /\ now' = now + 1
    /\ UNCHANGED <<pc, call, loc, ret, vms, tasks, timer, hist>>
    /\ UNCHANGED driver

\* a guest that was asked to shut down powers its machine off
EnvGuestShutdown(v) ==
    /\ vms[v].exists /\ vms[v].power = PoweredOn /\ vms[v].shutdownRequested
    /\ vms' = [vms EXCEPT ![v].power = PoweredOff, ![v].shutdownRequested = FALSE]
    /\ hist' = IF pc # "idle" /\ call.vm = v /\ hist.offAt = -1
               THEN [hist EXCEPT !.offAt = now, !.offPc = pc] ELSE hist
    /\ UNCHANGED <<pc, call, loc, ret, tasks, now, timer>>
    /\ UNCHANGED driver

\* the error with which the remote side rejects task t now, or Nil if it is valid
TaskFault(t) ==
    LET v == t.vm IN
    IF ~vms[v].exists THEN ErrNotFound
    ELSE CASE t.kind = "clone" ->
                IF \E i \in DOMAIN vms : vms[i].exists /\ vms[i].name = t.req.name
                                         /\ vms[i].folder = t.req.folder
                THEN ErrDuplicateName ELSE Nil
           [] t.kind = "destroy" -> IF vms[v].power = PoweredOn THEN ErrInvalidState ELSE Nil
           [] t.kind = "powerOn" ->
                IF vms[v].power = PoweredOn \/ vms[v].template THEN ErrInvalidState ELSE Nil
           [] t.kind = "powerOff" -> IF vms[v].power # PoweredOn THEN ErrInvalidState ELSE Nil
           [] OTHER -> Nil

\* the inventory after task t has taken effect
TaskEffect(t) ==
    LET v == t.vm IN
    CASE t.kind = "clone" ->
            Append(vms, Machine(t.req.name, t.req.folder,
                                IF t.req.spec.PowerOn THEN PoweredOn ELSE PoweredOff,
                                NoSnapshotInfo))
      [] t.kind = "destroy" -> [vms EXCEPT ![v].exists = FALSE]
      [] t.kind = "reconfigure" ->
            [vms EXCEPT ![v].config =
                [CPUs |-> t.req.NumCPUs, RAM |-> t.req.MemoryMB,
                 CPUReservation |-> t.req.CpuAllocation.Reservation,
                 CPULimit |-> t.req.CpuAllocation.Limit,
                 RAMReservation |-> t.req.MemoryAllocation.Reservation,
                 RAMReserveAll |-> t.req.MemoryReservationLockedToMax]]
      [] t.kind = "powerOn" -> [vms EXCEPT ![v].power = PoweredOn]
      [] t.kind = "powerOff" ->
            [vms EXCEPT ![v].power = PoweredOff, ![v].shutdownRequested = FALSE]
      [] t.kind = "createSnapshot" ->
            LET new == Len(vms[v].snapshot.rootSnapshotList) + 1 IN
            [vms EXCEPT ![v].snapshot =
                            SnapshotInfo(Append(vms[v].snapshot.rootSnapshotList, new), new),
                        ![v].snapshotsMade = @ + 1]

\* the remote side finishes a running task: it takes effect, or it is rejected
EnvTaskFinish(i) ==
    /\ tasks[i].state = "running"
    /\ LET e == TaskFault(tasks[i]) IN
       IF e = Nil
       THEN /\ vms' = TaskEffect(tasks[i])
            /\ tasks' = [tasks EXCEPT ![i].state = "success",
                                      ![i].result = IF tasks[i].kind = "clone"
                                                    THEN Len(vms) + 1 ELSE NoRef]
            /\ hist' = IF tasks[i].kind = "powerOff" /\ hist.offAt = -1
                       THEN [hist EXCEPT !.offAt = now] ELSE hist
       ELSE /\ tasks' = [tasks EXCEPT ![i].state = "error", ![i].err = e]
            /\ UNCHANGED <<vms, hist>>
    /\ UNCHANGED <<pc, call, loc, ret, now, timer>>
    /\ UNCHANGED driver

\* the remote side fails a running task for a reason of its own
EnvTaskFail(i) ==
    /\ tasks[i].state = "running"
    /\ tasks' = [tasks EXCEPT ![i].state = "error", ![i].err = ErrFault]
    /\ UNCHANGED <<pc, call, loc, ret, vms, now, timer, hist>>
    /\ UNCHANGED driver

----------------------------------------------------------------------------

Next ==
    \/ \E cc \in ConnectConfigs : CallNewDriver(cc)
    \/ NewDriverParse
    \/ NewDriverConnect
    \/ NewDriverDatacenter
    \/ Resume
    \/ \E c \in CloneConfigs : CallCloneVM(c)
    \/ CloneResolveTemplate
    \/ CloneResolveFolder
    \/ CloneResolvePool
    \/ CloneResolveDatastore
    \/ CloneFetchSnapshot
    \/ CloneSubmit
    \/ CloneWait
    \/ \E v \in Handles : CallDestroyVM(v)
    \/ DestroySubmit
    \/ DestroyWait
    \/ \E v \in Handles, hw \in HardwareConfigs : CallConfigureVM(v, hw)
    \/ ConfigureSubmit
    \/ ConfigureWait
    \/ \E v \in Handles : CallPowerOn(v)
    \/ PowerOnSubmit
    \/ PowerOnWait
    \/ \E v \in Handles : CallCreateSnapshot(v)
    \/ SnapshotSubmit
    \/ SnapshotWait
    \/ \E v \in Handles : CallPowerOff(v)
    \/ PowerOffQuery
    \/ PowerOffSubmit
    \/ PowerOffWait
    \/ \E v \in Handles : CallStartShutdown(v)
    \/ ShutdownGuest
    \/ \E v \in Handles : CallConvertToTemplate(v)
    \/ MarkAsTemplate
    \/ \E v \in Handles : CallWaitForIP(v)
    \/ WaitForIPReturn
    \/ \E v \in Handles, t \in Timeouts : CallWaitForShutdown(v, t)
    \/ WfsQuery
    \/ WfsReply
    \/ WfsWake
    \/ TimerFire
    \/ Tick
    \/ CallerCancel
    \/ \E v \in Handles : EnvGuestShutdown(v)
    \/ \E i \in DOMAIN tasks : EnvTaskFinish(i)
    \/ \E i \in DOMAIN tasks : EnvTaskFail(i)

Spec == Init /\ [][Next]_vars

\* The driver restricted to the operations that decide what WaitForShutdown
\* meets: the session, and every call that changes whether a machine exists
\* and what its power state is. Nothing else runs while WaitForShutdown does.
PowerNext ==
    \/ \E cc \in ConnectConfigs : CallNewDriver(cc)
    \/ NewDriverParse
    \/ NewDriverConnect
    \/ NewDriverDatacenter
    \/ Resume
    \/ \E v \in Handles : CallDestroyVM(v)
    \/ DestroySubmit
    \/ DestroyWait
    \/ \E v \in Handles : CallPowerOn(v)
    \/ PowerOnSubmit
    \/ PowerOnWait
    \/ \E v \in Handles : CallPowerOff(v)
    \/ PowerOffQuery
    \/ PowerOffSubmit
    \/ PowerOffWait
    \/ \E v \in Handles : CallStartShutdown(v)
    \/ ShutdownGuest
    \/ \E v \in Handles, t \in Timeouts : CallWaitForShutdown(v, t)
    \/ WfsQuery
    \/ WfsReply
    \/ WfsWake
    \/ TimerFire
    \/ Tick
    \/ \E v \in Handles : EnvGuestShutdown(v)
    \/ \E i \in DOMAIN tasks : EnvTaskFinish(i)
    \/ \E i \in DOMAIN tasks : EnvTaskFail(i)

\* WaitForShutdown's own steps are taken, every power-state query is answered,
\* the runtime delivers a due timer, and time passes
FairSpec ==
    /\ Init /\ [][PowerNext]_vars
    /\ WF_vars(WfsQuery) /\ WF_vars(WfsReply) /\ WF_vars(WfsWake)
    /\ WF_vars(TimerFire) /\ WF_vars(Tick)

----------------------------------------------------------------------------
(* Properties *)

Returned(op) == pc = "returned" /\ call.op = op

TaskOps == {"CloneVM", "DestroyVM", "ConfigureVM", "PowerOn", "PowerOff", "CreateSnapshot"}

\* C1: while and after a CloneVM call with LinkedClone=true runs on a template
\* that has no snapshot, no remote task has been requested or exists; the call
\* returns an error and no machine handle, and once the snapshot metadata was
\* fetched (and found absent) that error is the "template has no snapshots" one.
C1_LinkedCloneNeedsSnapshot ==
    (/\ call.op = "CloneVM" /\ call.config.LinkedClone
     /\ loc.template # NoRef
     /\ ~vms[loc.template].snapshot.present)
    => /\ hist.requests = 0 /\ hist.submitted = 0 /\ tasks = << >>
       /\ pc # "clone_submit" /\ pc # "clone_wait"
       /\ pc = "returned" => (ret.vm = NoRef /\ ret.err # Nil)
       /\ (pc = "returned" /\ "snapshot" \in hist.lookups) => ret.err = ErrNoSnapshots

C1_Witness ==
    /\ Returned("CloneVM") /\ call.config.LinkedClone
    /\ call.config.Template = "base-no-snap"
    /\ "snapshot" \in hist.lookups /\ ~hist.fetched.present
    /\ ret.err = ErrNoSnapshots /\ ret.vm = NoRef /\ tasks = << >>

\* C2: a PowerOff whose query saw poweredOff returns success with no task
\* requested; a PowerOff whose query saw another state requests exactly one
\* powerOff task, has waited for it when it returns, and if that task
\* succeeded the machine is poweredOff and the call returned success.
C2_PowerOff ==
    (Returned("PowerOff") /\ ~hist.queryFailed)
    => IF hist.lastSeen = PoweredOff
       THEN ret.err = Nil /\ hist.requests = 0 /\ hist.submitted = 0 /\ tasks = << >>
       ELSE /\ hist.lastSeen \in {PoweredOn, Suspended}
            /\ hist.requests = 1 /\ Len(tasks) = hist.submitted
            /\ hist.awaited = hist.submitted
            /\ hist.submitted = 1 =>
                 /\ tasks[loc.task].kind = "powerOff" /\ tasks[loc.task].vm = call.vm
                 /\ tasks[loc.task].state # "running"
                 /\ ret.err = tasks[loc.task].err
                 /\ tasks[loc.task].state = "success" =>
                      (vms[call.vm].power = PoweredOff /\ ret.err = Nil)

C2_Witness ==
    /\ Returned("PowerOff") /\ hist.lastSeen = PoweredOn
    /\ hist.submitted = 1 /\ tasks[loc.task].state = "success"
    /\ vms[call.vm].power = PoweredOff /\ ret.err = Nil

\* C3: whenever the driver is not inside a call (a call has returned, or none
\* is running), no remote task is still running, and a task operation that
\* created a task has waited for it.
C3_NoTaskInFlightAfterReturn ==
    pc \in {"returned", "idle"}
    => /\ \A i \in DOMAIN tasks : tasks[i].state # "running"
       /\ (pc = "returned" /\ call.op \in TaskOps) =>
              (hist.awaited = hist.submitted /\ hist.submitted = Len(tasks))

C3_Witness ==
    /\ Returned("CreateSnapshot") /\ hist.submitted = 1 /\ hist.awaited = 1
    /\ tasks[loc.task].state = "success" /\ ret.err = Nil
    /\ vms[call.vm].snapshot.currentSnapshot = Len(vms[call.vm].snapshot.rootSnapshotList)

\* C4: the timer of WaitForShutdown is armed once, for call time + timeout, and
\* stays so during the call; the timeout error is never returned before that
\* deadline; and if the machine was never poweredOff during the call and no
\* query failed, the call returns the timeout error, at or after the deadline.
C4_TimeoutNotBeforeDeadline ==
    call.op = "WaitForShutdown"
    => /\ timer.armed /\ timer.deadline = hist.start + call.timeout
       /\ timer.fired => now >= hist.start + call.timeout
       /\ (pc = "returned" /\ ret.err = ErrTimeout) => now >= hist.start + call.timeout
       /\ (pc = "returned" /\ hist.offAt = -1 /\ ~hist.queryFailed)
             => (ret.err = ErrTimeout /\ now >= hist.start + call.timeout)

C4_Witness ==
    /\ Returned("WaitForShutdown") /\ ret.err = ErrTimeout
    /\ call.timeout = 3 * TicksPerSecond /\ hist.offAt = -1 /\ ~hist.queryFailed
    /\ hist.polls >= 3 /\ now >= hist.start + call.timeout

\* the machine became poweredOff at least one polling interval before the deadline
OffBeforeDeadline ==
    hist.offAt # -1 /\ hist.offAt + PollInterval <= hist.start + call.timeout

C6_LinkedCloneBase ==
    \A i \in DOMAIN tasks :
        tasks[i].kind = "clone" =>
            LET spec == tasks[i].req.spec IN
            IF call.config.LinkedClone
            THEN /\ "snapshot" \in hist.lookups /\ hist.fetched.present
                 /\ spec.Snapshot = hist.fetched.currentSnapshot
                 /\ spec.Snapshot = vms[tasks[i].vm].snapshot.currentSnapshot
                 /\ spec.Snapshot # NoRef
                 /\ spec.Location.DiskMoveType = "createNewChildDiskBacking"
            ELSE /\ spec.Snapshot = NoRef
                 /\ spec.Location.DiskMoveType = ""
                 /\ "snapshot" \notin hist.lookups

\* the chain S1 -> S2 with S2 current
C6_Witness ==
    /\ Returned("CloneVM") /\ call.config.LinkedClone /\ ret.err = Nil
    /\ hist.fetched.rootSnapshotList = <<1, 2>> /\ hist.fetched.currentSnapshot = 2
    /\ tasks[loc.task].req.spec.Snapshot = 2
    /\ tasks[loc.task].req.spec.Location.DiskMoveType = "createNewChildDiskBacking"

OneTaskOps == {"DestroyVM", "ConfigureVM", "PowerOn", "CreateSnapshot"}

KindOf(op) ==
    CASE op = "DestroyVM" -> "destroy"
      [] op = "ConfigureVM" -> "reconfigure"
      [] op = "PowerOn" -> "powerOn"
      [] op = "CreateSnapshot" -> "createSnapshot"

\* C7: a DestroyVM, ConfigureVM, PowerOn or CreateSnapshot call never makes a
\* second request; when it returns it has made exactly one, of its own kind on
\* its own machine; if that request was refused no task exists, none was
\* waited for and the refusal is what is returned; otherwise the task is over
\* and its error (or none) is what is returned.
C7_OneTaskAwaitedErrorsUnmodified ==
    call.op \in OneTaskOps
    => /\ hist.requests <= 1 /\ Len(tasks) = hist.submitted
       /\ \A i \in DOMAIN tasks : tasks[i].kind = KindOf(call.op) /\ tasks[i].vm = call.vm
       /\ pc = "returned" =>
            /\ hist.requests = 1 /\ hist.awaited = hist.submitted
            /\ IF hist.submitted = 0
               THEN ret.err # Nil /\ ret.err = hist.raised
               ELSE /\ tasks[loc.task].state # "running"
                    /\ ret.err = tasks[loc.task].err
                    /\ (tasks[loc.task].state = "success") = (ret.err = Nil)

C7_Witness ==
    /\ Returned("DestroyVM") /\ hist.requests = 1 /\ hist.submitted = 1
    /\ tasks[loc.task].state = "error" /\ ret.err = ErrInvalidState
    /\ vms[call.vm].exists

\* C8: once a power-state query of WaitForShutdown has failed, the call is at
\* that reply or has returned, with that query's error, which is neither
\* success nor the timeout error: no poll and no sleep follows the failure.
C8_QueryFailureAborts ==
    (call.op = "WaitForShutdown" /\ hist.queryFailed)
    => /\ pc \in {"wfs_reply", "returned"}
       /\ loc.err \in {ErrFault, ErrNotFound}
       /\ hist.sleeps = hist.polls - 1
       /\ pc = "returned" =>
            (ret.err = loc.err /\ ret.err = hist.raised /\ ret.err # ErrTimeout)

\* the query fails after the deadline has elapsed
C8_Witness ==
    /\ Returned("WaitForShutdown") /\ hist.queryFailed /\ ret.err = ErrFault
    /\ timer.fired /\ now >= hist.start + call.timeout /\ hist.polls >= 2

FolderRefOf(name) == IF name = "" THEN DefaultFolder ELSE "group-v-" \o name

\* C9: no clone task asks for power-on; a successful CloneVM returns the
\* result of its clone task, which is a machine other than the template, of
\* the requested name, in the resolved folder (the default folder for an empty
\* folder name) and poweredOff.
C9_CloneResult ==
    /\ \A i \in DOMAIN tasks :
          tasks[i].kind = "clone" => tasks[i].req.spec.PowerOn = FALSE
    /\ (Returned("CloneVM") /\ ret.err = Nil)
       => /\ hist.submitted = 1 /\ tasks[loc.task].state = "success"
          /\ ret.vm = tasks[loc.task].result
          /\ ret.vm \in DOMAIN vms /\ ret.vm # loc.template
          /\ vms[ret.vm].exists
          /\ vms[ret.vm].name = call.config.VMName
          /\ tasks[loc.task].req.folder = FolderRefOf(call.config.Folder)
          /\ vms[ret.vm].folder = FolderRefOf(call.config.Folder)
          /\ vms[ret.vm].power = PoweredOff
    /\ (Returned("CloneVM") /\ ret.err # Nil) => ret.vm = NoRef

\* Clone(template="tpl1", name="vm1", folder="", pool="", datastore="")
C9_Witness ==
    /\ Returned("CloneVM") /\ ret.err = Nil
    /\ call.config.Template = "tpl1" /\ call.config.VMName = "vm1"
    /\ call.config.Folder = "" /\ call.config.ResourcePool = ""
    /\ call.config.Datastore = ""
    /\ vms[ret.vm].name = "vm1" /\ vms[ret.vm].folder = DefaultFolder
    /\ vms[ret.vm].power = PoweredOff

\* C10: the placement of every clone task has a pool reference, and has a
\* datastore reference exactly if the datastore name is not empty; a CloneVM
\* with an empty datastore name never looks a datastore up.
C10_Placement ==
    call.op = "CloneVM"
    => /\ \A i \in DOMAIN tasks :
             tasks[i].kind = "clone" =>
                /\ tasks[i].req.spec.Location.Pool # Nil
                /\ (tasks[i].req.spec.Location.Datastore # Nil)
                      = (call.config.Datastore # "")
                /\ "pool" \in hist.lookups
       /\ call.config.Datastore = "" => "datastore" \notin hist.lookups
       /\ (call.config.Datastore # "" /\ pc \in {"clone_snapshot", "clone_submit", "clone_wait"})
             => "datastore" \in hist.lookups

C10_Witness ==
    /\ call.op = "CloneVM" /\ pc = "clone_wait"
    /\ call.config.Datastore = "ds1"
    /\ tasks[loc.task].req.spec.Location.Datastore = "datastore-ds1"
    /\ tasks[loc.task].req.spec.Location.Pool = "resgroup-p1"


\* C11: the pool path CloneVM looks up is empty (the default pool) exactly if
\* the pool name is empty, whatever the host, and is otherwise
\* /<datacenter>/host/<host>/Resources/<pool>; an empty pool name resolves the
\* default pool also when a host is named, and host h1 with pool p1 resolves
\* the pool at /dc1/host/h1/Resources/p1.
C11_PoolResolution ==
    (call.op = "CloneVM" /\ "pool" \in hist.lookups)
    => /\ (hist.poolPath = "") = (call.config.ResourcePool = "")
       /\ call.config.ResourcePool # "" =>
             hist.poolPath = "/dc1/host/" \o call.config.Host \o "/Resources/"
                                \o call.config.ResourcePool
       /\ call.config.ResourcePool = "" =>
             (hist.raised = Nil => loc.relocateSpec.Pool = DefaultPool)
       /\ (call.config.Host = "h1" /\ call.config.ResourcePool = "p1") =>
             (/\ hist.poolPath = "/dc1/host/h1/Resources/p1"
              /\ hist.raised = Nil => loc.relocateSpec.Pool = "resgroup-p1")
       /\ (call.config.Host = "" /\ call.config.ResourcePool # "") =>
             (pc = "returned" /\ ret.err = ErrNotFound /\ hist.requests = 0)

\* a host is named, no pool: the default pool, the host ignored
C11_Witness ==
    /\ call.op = "CloneVM" /\ pc = "clone_datastore"
    /\ call.config.Host = "h1" /\ call.config.ResourcePool = ""
    /\ hist.poolPath = "" /\ loc.relocateSpec.Pool = DefaultPool


\* C12: when the clone task fails, at submission or at completion, CloneVM
\* returns that very error and no handle, and makes no further remote request:
\* the clone request is the only request of the call, no destroy task or any
\* other task exists, and the inventory lookups are those made before it.
C12_CloneFailureNoCleanup ==
    (Returned("CloneVM") /\ hist.requests >= 1 /\ ret.err # Nil)
    => /\ ret.vm = NoRef
       /\ hist.requests = 1
       /\ Len(tasks) = hist.submitted
       /\ \A i \in DOMAIN tasks : tasks[i].kind = "clone"
       /\ IF hist.submitted = 0
          THEN /\ tasks = <<>> /\ hist.awaited = 0
               /\ ret.err \in RefusalsFor(loc.template)
          ELSE /\ hist.awaited = 1
               /\ tasks[1].state = "error"
               /\ ret.err = tasks[1].err

\* the clone task was refused by the remote side for a duplicate name
C12_Witness ==
    /\ Returned("CloneVM")
    /\ hist.submitted = 1 /\ hist.awaited = 1
    /\ tasks[1].state = "error"
    /\ ret.err = ErrDuplicateName /\ ret.vm = NoRef


C14_StartShutdownOnlyInitiates ==
    /\ call.op = "StartShutdown"
       => /\ pc \in {"shutdown_guest", "returned"}
          /\ tasks = <<>>
          /\ hist.requests = 0 /\ hist.submitted = 0 /\ hist.awaited = 0
          /\ hist.polls = 0 /\ hist.sleeps = 0
          /\ ~timer.armed /\ now = 0
          /\ (pc = "returned" /\ ret.err = Nil)
                => (vms[call.vm].exists
                    /\ (vms[call.vm].power = PoweredOn => vms[call.vm].shutdownRequested))
    /\ (Returned("WaitForShutdown") /\ ret.err = Nil)
       => (hist.polls >= 1 /\ hist.lastSeen = PoweredOff)

\* StartShutdown has returned success and the machine is still poweredOn
C14_Witness ==
    /\ Returned("StartShutdown") /\ ret.err = Nil
    /\ vms[call.vm].power = PoweredOn /\ vms[call.vm].shutdownRequested
    /\ hist.polls = 0 /\ tasks = <<>>


\* C15: NewDriver returns an error and no driver when connecting fails or the
\* datacenter cannot be resolved (a name that does not exist, or no name while
\* the default is ambiguous); a driver is returned only after the connection
\* was opened and the datacenter resolved, and its finder is scoped to exactly
\* that datacenter. No other operation runs without such a session.
C15_NewDriver ==
    /\ driver # NoDriver
       => /\ driver.client # Nil
          /\ driver.datacenter # Nil
          /\ driver.finderDatacenter = driver.datacenter
    /\ (call.op \notin {"none", "NewDriver"}) => driver # NoDriver
    /\ Returned("NewDriver")
       => LET name == call.connect.Datacenter
              resolvable == \/ name = "" /\ Cardinality(hist.datacenters) = 1
                            \/ name # "" /\ name \in hist.datacenters
          IN
          /\ (ret.err # Nil) = (driver = NoDriver)
          /\ (~hist.connected \/ ~resolvable) => (ret.err # Nil /\ driver = NoDriver)
          /\ ret.err = Nil
             => /\ hist.connected /\ resolvable
                /\ driver.datacenter \in hist.datacenters
                /\ name # "" => driver.datacenter = name
                /\ name = "" => hist.datacenters = {driver.datacenter}
                /\ driver.finderDatacenter = driver.datacenter

\* a session on the default datacenter of an inventory that has only one
C15_Witness ==
    /\ Returned("NewDriver") /\ ret.err = Nil
    /\ call.connect.Datacenter = "" /\ hist.datacenters = {"dc1"}
    /\ driver.datacenter = "dc1" /\ driver.finderDatacenter = "dc1"


\* the order of the steps of CloneVM for a given config
ExpectedSteps(config) ==
    <<"template", "folder", "pool">>
    \o (IF config.Datastore # "" THEN <<"datastore">> ELSE << >>)
    \o (IF config.LinkedClone = TRUE THEN <<"snapshot">> ELSE << >>)
    \o <<"submit", "await">>

\* sequence s is an initial part of sequence t
IsPrefix(s, t) ==
    /\ Len(s) <= Len(t)
    /\ \A i \in 1..Len(s) : s[i] = t[i]

\* C16: CloneVM performs its steps in a fixed order: template lookup, folder
\* lookup, pool lookup, datastore lookup only if a datastore is named,
\* snapshot fetch only if a linked clone is requested, submission of the clone
\* task, wait for it. The first step that fails returns its error unmodified
\* and nothing is executed after it; the clone task is submitted only when
\* every preceding step has succeeded, and at most once per call.
C16_CloneStepOrder ==
    call.op = "CloneVM"
    => /\ IsPrefix(hist.steps, ExpectedSteps(call.config))
       /\ hist.raised # Nil => (pc = "returned" /\ ret.err = hist.raised /\ ret.vm = NoRef)
       /\ (pc = "returned" /\ ret.err # Nil) => hist.raised = ret.err
       /\ (pc = "returned" /\ ret.err = Nil) => hist.steps = ExpectedSteps(call.config)
       /\ hist.requests <= 1 /\ Len(tasks) <= 1
       /\ hist.requests = 1
          => /\ loc.template # NoRef /\ loc.folder # Nil
             /\ loc.cloneSpec.Location.Pool # Nil
             /\ call.config.Datastore # "" => loc.cloneSpec.Location.Datastore # Nil
             /\ call.config.LinkedClone = TRUE => loc.cloneSpec.Snapshot # NoRef
       /\ hist.requests = 0 => tasks = << >>

\* the datastore lookup fails: four steps were made, nothing was submitted
C16_Witness ==
    /\ Returned("CloneVM") /\ ret.err = ErrNotFound
    /\ hist.steps = <<"template", "folder", "pool", "datastore">>
    /\ hist.requests = 0 /\ tasks = << >>


\* C17: in every iteration WaitForShutdown queries the power state before it
\* consults the deadline. It returns straight after a query, never after a
\* sleep; it has made at least one query, also with a zero or elapsed timeout;
\* success means that the last query observed poweredOff, and a last query
\* that observed poweredOff means success even though the timer has fired; the
\* timeout error is returned only after a query that observed another state.
C17_QueryBeforeDeadline ==
    /\ (call.op = "WaitForShutdown" /\ pc \in {"wfs_reply", "wfs_sleep", "returned"})
       => hist.polls >= 1
    /\ (call.op = "WaitForShutdown" /\ pc = "wfs_sleep")
       => (hist.lastSeen \in PowerStates \ {PoweredOff} /\ hist.sleeps = hist.polls)
    /\ Returned("WaitForShutdown")
       => /\ hist.sleeps = hist.polls - 1
          /\ ret.err = Nil => (hist.lastSeen = PoweredOff /\ loc.err = Nil)
          /\ (hist.lastSeen = PoweredOff /\ loc.err = Nil) => ret.err = Nil
          /\ ret.err = ErrTimeout
             => /\ hist.lastSeen \in PowerStates \ {PoweredOff}
                /\ loc.err = Nil
                /\ timer.fired /\ now >= hist.deadline
          /\ ret.err \notin {Nil, ErrTimeout} => (loc.err = ret.err /\ hist.queryFailed)

\* a zero timeout: the timer has fired, the one query saw poweredOff, success
C17_Witness ==
    /\ Returned("WaitForShutdown") /\ ret.err = Nil
    /\ call.timeout = 0 /\ timer.fired
    /\ hist.polls = 1 /\ hist.lastSeen = PoweredOff


\* WaitForShutdown is between its call and its return
WfsRunning == call.op = "WaitForShutdown" /\ pc \in {"wfs_query", "wfs_reply", "wfs_sleep"}

\* C18: WaitForShutdown with a finite timeout terminates, provided every
\* query is answered: a running call eventually returns, with exactly one of
\* success, the timeout error or the query error. When it returns the timeout
\* error, its last query was sent no later than one polling interval (one
\* second) after the deadline, so the error comes within one polling interval
\* plus that one query.
C18_WaitForShutdownTerminates ==
    /\ [](Returned("WaitForShutdown")
           => /\ \/ ret.err = Nil /\ hist.lastSeen = PoweredOff
                 \/ ret.err = ErrTimeout /\ hist.lastSeen # PoweredOff /\ ~hist.queryFailed
                 \/ ret.err \notin {Nil, ErrTimeout} /\ hist.queryFailed
              /\ ret.err = ErrTimeout
                 => /\ loc.queryAt <= hist.deadline + SleepSeconds * TicksPerSecond
                    /\ now <= hist.deadline + SleepSeconds * TicksPerSecond
                                 + (now - loc.queryAt)
                    /\ now - loc.queryAt <= MaxQueryDelay)
    /\ (WfsRunning ~> Returned("WaitForShutdown"))

\* the timeout error after a sleep that straddled the deadline
C18_Witness ==
    /\ Returned("WaitForShutdown") /\ ret.err = ErrTimeout
    /\ call.timeout > 0 /\ hist.polls >= 2
    /\ loc.queryAt = hist.deadline + SleepSeconds * TicksPerSecond
    /\ vms[call.vm].power = PoweredOn


\* C19: PowerOff does not return an error merely because the machine is
\* already off: when the guest powers the machine off between PowerOff's
\* power-state query and the submission of its power-off task, PowerOff still
\* returns success. The code submits the task on the strength of the earlier
\* query; the remote side rejects it for the machine's power state and PowerOff
\* returns that rejection.
C19_AsStated ==
    (/\ Returned("PowerOff")
     /\ hist.lastSeen = PoweredOn
     /\ hist.offPc = "poweroff_submit"
     /\ vms[call.vm].exists /\ vms[call.vm].power = PoweredOff)
    => ret.err # ErrInvalidState


\* the snapshot of machine v that was created last
LastCreated(v) == vms[v].snapshot.rootSnapshotList[Len(vms[v].snapshot.rootSnapshotList)]

\* C20: a successful CreateSnapshot leaves the machine with a current
\* snapshot, the one just created. A later linked CloneVM whose template is a
\* machine on which CreateSnapshot has succeeded (and that still exists)
\* passes the snapshot precondition and uses as its base the machine's current
\* snapshot, which is the most recently created one.
C20_SnapshotThenLinkedClone ==
    /\ (Returned("CreateSnapshot") /\ ret.err = Nil)
       => /\ vms[call.vm].snapshotsMade >= 1
          /\ vms[call.vm].snapshot.present
          /\ vms[call.vm].snapshot.currentSnapshot = LastCreated(call.vm)
    /\ (/\ call.op = "CloneVM" /\ call.config.LinkedClone = TRUE
        /\ loc.template # NoRef
        /\ vms[loc.template].snapshotsMade >= 1)
       => /\ ret.err # ErrNoSnapshots
          /\ "snapshot" \in hist.lookups
             => /\ hist.fetched.present
                /\ pc \in {"clone_submit", "clone_wait", "returned"}
                /\ loc.cloneSpec.Snapshot = vms[loc.template].snapshot.currentSnapshot
                /\ loc.cloneSpec.Snapshot = LastCreated(loc.template)
          /\ \A i \in DOMAIN tasks :
                tasks[i].kind = "clone" => tasks[i].req.spec.Snapshot = LastCreated(loc.template)

\* a machine without snapshots got one from CreateSnapshot and was then the
\* template of a successful linked clone
C20_Witness ==
    /\ Returned("CloneVM") /\ ret.err = Nil /\ ret.vm # NoRef
    /\ call.config.LinkedClone = TRUE /\ call.config.Template = "base-no-snap"
    /\ vms[loc.template].snapshotsMade = 1
    /\ loc.cloneSpec.Snapshot = 1

====
